---- MODULE Spec2Model ----
(***************************************************************************)
(* State machine of the board game in src/src/App.tsx (component App and   *)
(* the presentation components that raise its events).  The React state    *)
(* hooks of App are the variables; every event handler is one action; the  *)
(* callbacks the handlers leave behind (setTimeout, gsap onComplete) are   *)
(* kept in the queue `pending` until they run.                             *)
(*                                                                         *)
(* Of `message` the model keeps which text it holds, not the numbers and   *)
(* names inside it.  Left out: sounds, camera, colours and names of the    *)
(* players (passed through unchanged), and the "Debug Win" button, which   *)
(* exists in development builds only (App.tsx:1404-1419).                  *)
(***************************************************************************)
EXTENDS Integers, Sequences, FiniteSets, TLC

VARIABLES
  gameState,            \* App.tsx:1076
  currentPlayer,        \* App.tsx:1077
  gameSettings,         \* App.tsx:1078  (winCondition, operation)
  message,              \* App.tsx:1081  (which of the texts it holds)
  isSpinning1,          \* App.tsx:1082
  isSpinning2,          \* App.tsx:1083
  spinner1Value,        \* App.tsx:1084
  spinner2Value,        \* App.tsx:1085
  winner,               \* App.tsx:1086
  spinner1Target,       \* App.tsx:1087
  spinner2Target,       \* App.tsx:1088
  boardLayout,          \* App.tsx:1089
  spinner1Segments,     \* App.tsx:1092
  divisionTableNumber,  \* App.tsx:1095
  boardState,           \* App.tsx:1111
  flashingCell,         \* App.tsx:1113
  pending,              \* callbacks scheduled and not yet run, oldest first
  player1Color,         \* game-setup-modal.tsx:84
  player2Color          \* game-setup-modal.tsx:87

vars == << gameState, currentPlayer, gameSettings, message, isSpinning1, isSpinning2,
           spinner1Value, spinner2Value, winner, spinner1Target,
           spinner2Target, boardLayout, spinner1Segments,
           divisionTableNumber, boardState, flashingCell, pending,
           player1Color, player2Color >>

-----------------------------------------------------------------------------
(* Bounds of the model *)

\* Math.random() draws (1..10 in the code) are taken from 1..MaxDraw.
MaxDraw == 3
\* The cells a player clicks are those whose layout value is at most this.
MaxCellValue == 6
\* Cell clicks made while this many callbacks are already pending are not
\* explored.
MaxPending == 2
\* SpecBoards builds boards with at most this many claimed cells.
MaxMarks == 3
\* SpecEndgame starts with the cells unclaimed whose layout value is at most
\* this, and all the other cells claimed.
MaxOpen == 2

(* Constants of the program *)

NumRows == 6
NumCols == 7
SegmentCount == 10
FlashDelay == 1600
ChangeTurnDelay == 2000
CoinTimerDelay == 1600
CoinFlipDuration == 3000 + 500
SpinDuration == 5000
\* Math.floor(Math.random() * 10): the number of values of a random draw
DrawRange == 10

\* null of a Player | null (board cells, winner)
Null == "null"
\* null of a number | null (spinner values and targets, table number, result)
NoValue == -1
\* null of flashingCell; a flashing cell is << row, col >>
NoCell == << >>
Players == {"player1", "player2"}
Operations == {"multiply", "divide", "add", "subtract"}
WinConditions == {"first_to_5", "connect_3", "most_on_full"}

Rows == 0 .. NumRows - 1
Cols == 0 .. NumCols - 1
Draws == 1 .. MaxDraw

PREDEFINED_BOARDS(op) ==
  CASE op = "multiply" ->
         << <<30, 18, 63, 64, 28, 7, 8>>,
            <<32, 45, 60, 70, 27, 6, 9>>,
            <<35, 48, 56, 72, 25, 5, 10>>,
            <<36, 1, 54, 80, 24, 4, 12>>,
            <<40, 16, 50, 81, 21, 3, 14>>,
            <<42, 100, 49, 90, 20, 2, 15>> >>
    [] op = "add" ->
         << <<14, 8, 21, 12, 17, 9, 23>>,
            <<6, 25, 11, 18, 7, 15, 20>>,
            <<24, 10, 19, 5, 22, 13, 16>>,
            <<1, 2, 3, 4, 26, 27, 28>>,
            <<29, 30, 31, 32, 33, 34, 35>>,
            <<36, 37, 38, 39, 40, 41, 42>> >>
    [] op = "subtract" ->
         << <<2, 5, 3, 7, 1, 6, 20>>,
            <<8, 4, 9, 0, 10, 15, 13>>,
            <<12, 17, 16, 14, 19, 11, 18>>,
            <<21, 22, 23, 24, 25, 26, 27>>,
            <<28, 29, 30, 31, 32, 33, 34>>,
            <<35, 36, 37, 38, 39, 40, 41>> >>
    [] op = "divide" ->
         << <<9, 2, 8, 6, 10, 14, 18>>,
            <<4, 5, 7, 3, 1, 17, 11>>,
            <<21, 20, 19, 12, 16, 15, 13>>,
            <<22, 23, 24, 25, 26, 27, 28>>,
            <<29, 30, 32, 35, 36, 40, 42>>,
            <<45, 48, 50, 54, 56, 60, 81>> >>

\* The value v of each of the ten default segments.
DEFAULT_SPINNER_SEGMENTS == [i \in 1 .. SegmentCount |-> i]

DEFAULT_GAME_SETTINGS == [winCondition |-> "first_to_5", operation |-> "multiply"]

\* The colours of the default settings, which the modal's two selects start
\* from, and the colours the selects offer (each by its value).
DEFAULT_PLAYER_COLORS == [player1 |-> "#4682B4", player2 |-> "#DB7093"]

PREDEFINED_COLORS ==
  {"#4682B4", "#DB7093", "#2ecc71", "#e67e22", "#9b59b6", "#f1c40f"}

initialBoardState == [r \in Rows |-> [c \in Cols |-> Null]]

\* boardLayout[row][col] with the code's indices, which start at 0.
CellValue(layout, row, col) == layout[row + 1][col + 1]

\* Faulty variant of OtherPlayer: the turn stays with the same player.
SamePlayer(p) == p

OtherPlayer(p) == IF p = "player1" THEN "player2" ELSE "player1"
Spin1State(p) == IF p = "player1" THEN "PLAYER_1_SPIN_1" ELSE "PLAYER_2_SPIN_1"
Spin2State(p) == IF p = "player1" THEN "PLAYER_1_SPIN_2" ELSE "PLAYER_2_SPIN_2"
AnswerState(p) == IF p = "player1" THEN "PLAYER_1_ANSWER" ELSE "PLAYER_2_ANSWER"

EndsWithSpin1(gs) == gs \in {"PLAYER_1_SPIN_1", "PLAYER_2_SPIN_1"}
EndsWithSpin2(gs) == gs \in {"PLAYER_1_SPIN_2", "PLAYER_2_SPIN_2"}
EndsWithAnswer(gs) == gs \in {"PLAYER_1_ANSWER", "PLAYER_2_ANSWER"}
\* gameState.startsWith(`PLAYER_${n}`)
StartsWithPlayer(gs, p) == gs \in {Spin1State(p), Spin2State(p), AnswerState(p)}

Flat(board) == {<<r, c>> : r \in Rows, c \in Cols}
CountOf(board, who) == Cardinality({rc \in Flat(board) : board[rc[1]][rc[2]] = who})
IncludesNull(board) == \E rc \in Flat(board) : board[rc[1]][rc[2]] = Null

-----------------------------------------------------------------------------
(* Pending callbacks.  Every callback has a fixed delay; callback i of the *)
(* queue can be the next to run only when no callback scheduled before it  *)
(* has a delay that is not longer: that one is due earlier.                *)

Callback(kind, delay, player, settings, value) ==
  [kind |-> kind, delay |-> delay, currentPlayer |-> player,
   settings |-> settings, value |-> value]

Due(i) == /\ i \in 1 .. Len(pending)
          /\ \A j \in 1 .. (i - 1) : pending[j].delay > pending[i].delay

Without(q, i) == [j \in 1 .. (Len(q) - 1) |-> IF j < i THEN q[j] ELSE q[j + 1]]

-----------------------------------------------------------------------------
(* Pure functions of App *)

\* Math.max and Math.min of two numbers
Max(a, b) == IF a >= b THEN a ELSE b
Min(a, b) == IF a <= b THEN a ELSE b

getCorrectAnswer(op, val1, val2) ==
  CASE op = "multiply" -> val1 * val2
    [] op = "add" -> val1 + val2
    [] op = "subtract" -> val1 - val2
    [] op = "divide" -> IF val1 % val2 = 0 THEN val1 \div val2 ELSE NoValue

\* prepareTurn with tableNumber the value its Math.random() call gives.
prepareTurn(settings, tableNumber) ==
  IF settings.operation = "divide"
  THEN [divisionTableNumber |-> tableNumber,
        spinner1Segments |-> [i \in 1 .. SegmentCount |-> tableNumber * i]]
  ELSE [divisionTableNumber |-> NoValue,
        spinner1Segments |-> DEFAULT_SPINNER_SEGMENTS]

\* Faulty variant of spinTargets: the subtraction operands are not ordered.
spinTargetsUnordered(settings, tableNumber, segments, randomMultiplierIndex, num1, num2) ==
  IF settings.operation = "divide" /\ tableNumber # NoValue /\ tableNumber # 0
  THEN << segments[randomMultiplierIndex + 1], tableNumber >>
  ELSE << num1, num2 >>

\* The pair <<spinner1Target, spinner2Target>> handleSpin1Start sets, with
\* randomMultiplierIndex, num1 and num2 the values its random calls give.
spinTargets(settings, tableNumber, segments, randomMultiplierIndex, num1, num2) ==
  IF settings.operation = "divide" /\ tableNumber # NoValue /\ tableNumber # 0
  THEN << segments[randomMultiplierIndex + 1], tableNumber >>
  ELSE IF settings.operation = "subtract"
       THEN << Max(num1, num2), Min(num1, num2) >>
       ELSE << num1, num2 >>

\* checkLine of checkWinCondition: line is indexed from 0.
checkLine(line, player) ==
  \E i \in 0 .. (Cardinality(DOMAIN line) - 3) :
    line[i] = player /\ line[i + 1] = player /\ line[i + 2] = player

\* Faulty variant of connect3: the up-right loop starts one row too low.
connect3ShortDiagonal(currentBoard, player) ==
  LET numRows == Cardinality(DOMAIN currentBoard)
      numCols == Cardinality(DOMAIN currentBoard[0])
  IN \/ \E r \in 0 .. (numRows - 1) : checkLine(currentBoard[r], player)
     \/ \E c \in 0 .. (numCols - 1) :
          checkLine([r \in 0 .. (numRows - 1) |-> currentBoard[r][c]], player)
     \/ \E r \in 0 .. (numRows - 3) : \E c \in 0 .. (numCols - 3) :
          /\ currentBoard[r][c] = player
          /\ currentBoard[r + 1][c + 1] = player
          /\ currentBoard[r + 2][c + 2] = player
     \/ \E r \in 3 .. (numRows - 1) : \E c \in 0 .. (numCols - 3) :
          /\ currentBoard[r][c] = player
          /\ currentBoard[r - 1][c + 1] = player
          /\ currentBoard[r - 2][c + 2] = player

connect3(currentBoard, player) ==
  LET numRows == Cardinality(DOMAIN currentBoard)
      numCols == Cardinality(DOMAIN currentBoard[0])
  IN \/ \E r \in 0 .. (numRows - 1) : checkLine(currentBoard[r], player)
     \/ \E c \in 0 .. (numCols - 1) :
          checkLine([r \in 0 .. (numRows - 1) |-> currentBoard[r][c]], player)
     \/ \E r \in 0 .. (numRows - 3) : \E c \in 0 .. (numCols - 3) :
          /\ currentBoard[r][c] = player
          /\ currentBoard[r + 1][c + 1] = player
          /\ currentBoard[r + 2][c + 2] = player
     \/ \E r \in 2 .. (numRows - 1) : \E c \in 0 .. (numCols - 3) :
          /\ currentBoard[r][c] = player
          /\ currentBoard[r - 1][c + 1] = player
          /\ currentBoard[r - 2][c + 2] = player

\* Faulty variant of firstTo5: more than five cells are asked for.
firstTo5Strict(currentBoard, player) == CountOf(currentBoard, player) > 5

firstTo5(currentBoard, player) == CountOf(currentBoard, player) >= 5

\* Faulty variant of mostOnFullWinner: equal counts give player1 the win.
mostOnFullWinnerTie(currentBoard) ==
  LET p1Count == CountOf(currentBoard, "player1")
      p2Count == CountOf(currentBoard, "player2")
  IN IF p1Count >= p2Count THEN "player1" ELSE "player2"

mostOnFullWinner(currentBoard) ==
  LET p1Count == CountOf(currentBoard, "player1")
      p2Count == CountOf(currentBoard, "player2")
  IN IF p1Count > p2Count THEN "player1"
     ELSE IF p2Count > p1Count THEN "player2" ELSE Null

\* checkWinCondition: what it returns (isGameOver) and, when it returns true,
\* the winner it sets together with gameState GAME_OVER.
checkWinCondition(currentBoard, player, winCondition) ==
  CASE winCondition = "first_to_5" ->
         IF firstTo5(currentBoard, player)
         THEN [isGameOver |-> TRUE, winner |-> player]
         ELSE [isGameOver |-> FALSE, winner |-> Null]
    [] winCondition = "connect_3" ->
         IF connect3(currentBoard, player)
         THEN [isGameOver |-> TRUE, winner |-> player]
         ELSE [isGameOver |-> FALSE, winner |-> Null]
    [] winCondition = "most_on_full" ->
         IF ~IncludesNull(currentBoard)
         THEN [isGameOver |-> TRUE, winner |-> mostOnFullWinner(currentBoard)]
         ELSE [isGameOver |-> FALSE, winner |-> Null]

\* A faulty Spinner3D whose animation stops on the wheel's first segment.
spinnerEffectFirstSegment(kind, isSpinning, targetValue, segments, player) ==
  IF /\ isSpinning
     /\ targetValue # NoValue
     /\ \E i \in DOMAIN segments : segments[i] = targetValue
  THEN << Callback(kind, SpinDuration, player, gameSettings, segments[1]) >>
  ELSE << >>

\* Spinner3D's effect: the animation it starts toward targetValue, if any.
spinnerEffect(kind, isSpinning, targetValue, segments, player) ==
  IF /\ isSpinning
     /\ targetValue # NoValue
     /\ \E i \in DOMAIN segments : segments[i] = targetValue
  THEN << Callback(kind, SpinDuration, player, gameSettings, targetValue) >>
  ELSE << >>

-----------------------------------------------------------------------------
(* Initial state: the values of App's useState calls *)

Init ==
  /\ gameState = "SETUP"
  /\ currentPlayer = "player1"
  /\ gameSettings = DEFAULT_GAME_SETTINGS
  /\ message = "Configure o jogo"
  /\ isSpinning1 = FALSE
  /\ isSpinning2 = FALSE
  /\ spinner1Value = NoValue
  /\ spinner2Value = NoValue
  /\ winner = Null
  /\ spinner1Target = NoValue
  /\ spinner2Target = NoValue
  /\ boardLayout = PREDEFINED_BOARDS("multiply")
  /\ spinner1Segments = DEFAULT_SPINNER_SEGMENTS
  /\ divisionTableNumber = NoValue
  /\ boardState = initialBoardState
  /\ flashingCell = NoCell
  /\ pending = << >>
  /\ player1Color = DEFAULT_PLAYER_COLORS.player1
  /\ player2Color = DEFAULT_PLAYER_COLORS.player2

-----------------------------------------------------------------------------
(* Handlers *)

\* A faulty handleGameStart that leaves the layout of the previous game.
handleGameStartStaleLayout(settings, tableNumber) ==
  LET turn == prepareTurn(settings, tableNumber)
  IN /\ gameSettings' = settings
     /\ divisionTableNumber' = turn.divisionTableNumber
     /\ spinner1Segments' = turn.spinner1Segments
     /\ gameState' = "COIN_FLIP"
     /\ message' = "Sorteando"
     /\ pending' = Append(pending,
                     Callback("coinFlip", CoinFlipDuration, currentPlayer, settings, NoValue))
     /\ UNCHANGED << player1Color, player2Color, currentPlayer, isSpinning1,
                     isSpinning2, spinner1Value, spinner2Value, winner,
                     spinner1Target, spinner2Target, boardState, flashingCell,
                     boardLayout >>

\* handleGameStart; the CoinFlip component mounts with gameState COIN_FLIP
\* and its effect starts the flip animation.
handleGameStart(settings, tableNumber) ==
  LET turn == prepareTurn(settings, tableNumber)
  IN /\ boardLayout' = PREDEFINED_BOARDS(settings.operation)
     /\ gameSettings' = settings
     /\ divisionTableNumber' = turn.divisionTableNumber
     /\ spinner1Segments' = turn.spinner1Segments
     /\ gameState' = "COIN_FLIP"
     /\ message' = "Sorteando"
     /\ pending' = Append(pending,
                     Callback("coinFlip", CoinFlipDuration, currentPlayer, settings, NoValue))
     /\ UNCHANGED << player1Color, player2Color, currentPlayer, isSpinning1, isSpinning2, spinner1Value,
                     spinner2Value, winner, spinner1Target, spinner2Target,
                     boardState, flashingCell >>

\* A faulty handleRestart that leaves the board and the winner of the game
\* that ended.
handleRestartKeepsBoard ==
  /\ gameState' = "SETUP"
  /\ currentPlayer' = "player1"
  /\ gameSettings' = DEFAULT_GAME_SETTINGS
  /\ message' = "Configure o jogo"
  /\ spinner1Value' = NoValue
  /\ spinner2Value' = NoValue
  /\ spinner1Target' = NoValue
  /\ spinner2Target' = NoValue
  /\ spinner1Segments' = DEFAULT_SPINNER_SEGMENTS
  /\ divisionTableNumber' = NoValue
  /\ isSpinning1' = FALSE
  /\ isSpinning2' = FALSE
  /\ UNCHANGED << player1Color, player2Color, boardLayout, flashingCell,
                  pending, boardState, winner >>

handleRestart ==
  /\ gameState' = "SETUP"
  /\ currentPlayer' = "player1"
  /\ gameSettings' = DEFAULT_GAME_SETTINGS
  /\ message' = "Configure o jogo"
  /\ spinner1Value' = NoValue
  /\ spinner2Value' = NoValue
  /\ spinner1Target' = NoValue
  /\ spinner2Target' = NoValue
  /\ boardState' = initialBoardState
  /\ spinner1Segments' = DEFAULT_SPINNER_SEGMENTS
  /\ divisionTableNumber' = NoValue
  /\ isSpinning1' = FALSE
  /\ isSpinning2' = FALSE
  /\ winner' = Null
  /\ UNCHANGED << player1Color, player2Color, boardLayout, flashingCell, pending >>

\* handleCoinFlipComplete, run by callback i of the queue; settings are the
\* gameSettings of the render that mounted CoinFlip.
handleCoinFlipComplete(i, result, tableNumber) ==
  LET startingPlayer == IF result = "cara" THEN "player1" ELSE "player2"
      settings == pending[i].settings
      turn == prepareTurn(settings, tableNumber)
  IN /\ currentPlayer' = startingPlayer
     /\ message' = "Lado"
     /\ divisionTableNumber' = turn.divisionTableNumber
     /\ spinner1Segments' = turn.spinner1Segments
     /\ pending' = Append(Without(pending, i),
                     Callback("coinTimer", CoinTimerDelay, startingPlayer, settings, NoValue))
     /\ UNCHANGED << player1Color, player2Color, gameState, gameSettings, isSpinning1, isSpinning2,
                     spinner1Value, spinner2Value, winner, spinner1Target,
                     spinner2Target, boardLayout, boardState, flashingCell >>

\* changeTurn, run by callback i of the queue, with the currentPlayer and
\* gameSettings of the render whose handleCellClick scheduled it.
changeTurn(i, tableNumber) ==
  LET nextPlayer == OtherPlayer(pending[i].currentPlayer)
      turn == prepareTurn(pending[i].settings, tableNumber)
  IN /\ currentPlayer' = nextPlayer
     /\ gameState' = Spin1State(nextPlayer)
     /\ divisionTableNumber' = turn.divisionTableNumber
     /\ spinner1Segments' = turn.spinner1Segments
     /\ spinner1Value' = NoValue
     /\ spinner2Value' = NoValue
     /\ spinner1Target' = NoValue
     /\ spinner2Target' = NoValue
     /\ message' = "Vez do Jogador"
     /\ pending' = Without(pending, i)
     /\ UNCHANGED << player1Color, player2Color, gameSettings, isSpinning1, isSpinning2, winner,
                     boardLayout, boardState, flashingCell >>

\* A faulty handleSpin1Start without the test of isCurrentlySpinning.
handleSpin1StartNoLatch(randomMultiplierIndex, num1, num2) ==
  LET targets == spinTargets(gameSettings, divisionTableNumber,
                             spinner1Segments, randomMultiplierIndex, num1, num2)
  IN /\ isSpinning1' = TRUE
     /\ spinner1Target' = targets[1]
     /\ spinner2Target' = targets[2]
     /\ message' = "Girando"
     /\ pending' = pending
           \o spinnerEffect("spin1End", TRUE, targets[1], spinner1Segments, currentPlayer)
     /\ UNCHANGED << player1Color, player2Color, gameState, currentPlayer,
                     gameSettings, isSpinning2, spinner1Value, spinner2Value,
                     winner, boardLayout, spinner1Segments,
                     divisionTableNumber, boardState, flashingCell >>

handleSpin1Start(randomMultiplierIndex, num1, num2) ==
  IF isSpinning1
  THEN UNCHANGED vars
  ELSE LET targets == spinTargets(gameSettings, divisionTableNumber,
                                  spinner1Segments, randomMultiplierIndex, num1, num2)
       IN /\ isSpinning1' = TRUE
          /\ spinner1Target' = targets[1]
          /\ spinner2Target' = targets[2]
          /\ message' = "Girando"
          /\ pending' = pending
                \o spinnerEffect("spin1End", TRUE, targets[1], spinner1Segments, currentPlayer)
                \o spinnerEffect("spin2End", isSpinning2, targets[2],
                                 DEFAULT_SPINNER_SEGMENTS, currentPlayer)
          /\ UNCHANGED << player1Color, player2Color, gameState, currentPlayer, gameSettings, isSpinning2,
                          spinner1Value, spinner2Value, winner, boardLayout,
                          spinner1Segments, divisionTableNumber, boardState,
                          flashingCell >>

\* handleSpin1End(value), run by callback i of the queue.
handleSpin1End(i) ==
  /\ isSpinning1' = FALSE
  /\ spinner1Value' = pending[i].value
  /\ gameState' = Spin2State(pending[i].currentPlayer)
  /\ message' = "Agora, clique na roleta da direita"
  /\ pending' = Without(pending, i)
  /\ UNCHANGED << player1Color, player2Color, currentPlayer, gameSettings, isSpinning2, spinner2Value,
                  winner, spinner1Target, spinner2Target, boardLayout,
                  spinner1Segments, divisionTableNumber, boardState,
                  flashingCell >>

handleSpin2Start ==
  IF isSpinning2
  THEN UNCHANGED vars
  ELSE /\ isSpinning2' = TRUE
       /\ message' = "Girando"
       /\ pending' = pending
             \o spinnerEffect("spin2End", TRUE, spinner2Target,
                              DEFAULT_SPINNER_SEGMENTS, currentPlayer)
       /\ UNCHANGED << player1Color, player2Color, gameState, currentPlayer, gameSettings, isSpinning1,
                       spinner1Value, spinner2Value, winner, spinner1Target,
                       spinner2Target, boardLayout, spinner1Segments,
                       divisionTableNumber, boardState, flashingCell >>

\* A faulty handleSpin2End that asks player1 for the answer in every turn.
handleSpin2EndPlayer1(i) ==
  /\ isSpinning2' = FALSE
  /\ spinner2Value' = pending[i].value
  /\ gameState' = "PLAYER_1_ANSWER"
  /\ message' = "Qual o resultado"
  /\ pending' = Without(pending, i)
  /\ UNCHANGED << player1Color, player2Color, currentPlayer, gameSettings,
                  isSpinning1, spinner1Value, winner, spinner1Target,
                  spinner2Target, boardLayout, spinner1Segments,
                  divisionTableNumber, boardState, flashingCell >>

\* handleSpin2End(value), run by callback i of the queue.
handleSpin2End(i) ==
  /\ isSpinning2' = FALSE
  /\ spinner2Value' = pending[i].value
  /\ gameState' = AnswerState(pending[i].currentPlayer)
  /\ message' = "Qual o resultado"
  /\ pending' = Without(pending, i)
  /\ UNCHANGED << player1Color, player2Color, currentPlayer, gameSettings, isSpinning1, spinner1Value,
                  winner, spinner1Target, spinner2Target, boardLayout,
                  spinner1Segments, divisionTableNumber, boardState,
                  flashingCell >>

\* A faulty handleCellClick without the test of the phase and the operands.
handleCellClickUnguarded(row, col) ==
  LET cellValue == CellValue(boardLayout, row, col)
      correctResult == getCorrectAnswer(gameSettings.operation,
                                        spinner1Value, spinner2Value)
      isCorrect == correctResult # NoValue /\ cellValue = correctResult
      newBoardState == [boardState EXCEPT ![row][col] = currentPlayer]
      claimCheck == IF isCorrect
                    THEN checkWinCondition(newBoardState, currentPlayer,
                                           gameSettings.winCondition)
                    ELSE [isGameOver |-> FALSE, winner |-> Null]
      isGameOver == claimCheck.isGameOver
      boardIsNowFull == ~IncludesNull(boardState)
      fullCheck == IF /\ ~isGameOver
                      /\ gameSettings.winCondition = "most_on_full"
                      /\ boardIsNowFull
                   THEN checkWinCondition(boardState, currentPlayer,
                                          gameSettings.winCondition)
                   ELSE [isGameOver |-> FALSE, winner |-> Null]
      handsOff == /\ ~isGameOver
                  /\ ~(gameSettings.winCondition = "most_on_full" /\ boardIsNowFull)
      flash == IF isCorrect THEN << >>
               ELSE << Callback("flash", FlashDelay, currentPlayer, gameSettings, NoValue) >>
      handoff == IF handsOff
                 THEN << Callback("changeTurn", ChangeTurnDelay, currentPlayer,
                                  gameSettings, NoValue) >>
                 ELSE << >>
  IN /\ boardState' = IF isCorrect THEN newBoardState ELSE boardState
     /\ flashingCell' = IF isCorrect THEN flashingCell ELSE << row, col >>
     /\ winner' = IF isGameOver THEN claimCheck.winner
                  ELSE IF fullCheck.isGameOver THEN fullCheck.winner
                  ELSE winner
     /\ gameState' = IF isGameOver \/ fullCheck.isGameOver
                     THEN "GAME_OVER" ELSE gameState
     /\ message' = IF isGameOver /\ gameSettings.winCondition # "most_on_full"
                   THEN "Fim de jogo"
                   ELSE IF isCorrect THEN "Correto" ELSE "Incorreto"
     /\ pending' = pending \o flash \o handoff
     /\ UNCHANGED << player1Color, player2Color, currentPlayer, gameSettings, isSpinning1, isSpinning2,
                     spinner1Value, spinner2Value, spinner1Target,
                     spinner2Target, boardLayout, spinner1Segments,
                     divisionTableNumber >>

\* A faulty handleCellClick that takes every selection as correct.
handleCellClickAcceptsAny(row, col) ==
  IF \/ ~EndsWithAnswer(gameState)
     \/ gameState = "GAME_OVER"
     \/ spinner1Value = NoValue
     \/ spinner2Value = NoValue
  THEN UNCHANGED vars
  ELSE
    LET cellValue == CellValue(boardLayout, row, col)
        correctResult == getCorrectAnswer(gameSettings.operation,
                                          spinner1Value, spinner2Value)
        isCorrect == cellValue >= 0
        newBoardState == [boardState EXCEPT ![row][col] = currentPlayer]
        claimCheck == IF isCorrect
                      THEN checkWinCondition(newBoardState, currentPlayer,
                                             gameSettings.winCondition)
                      ELSE [isGameOver |-> FALSE, winner |-> Null]
        isGameOver == claimCheck.isGameOver
        boardIsNowFull == ~IncludesNull(boardState)
        fullCheck == IF /\ ~isGameOver
                        /\ gameSettings.winCondition = "most_on_full"
                        /\ boardIsNowFull
                     THEN checkWinCondition(boardState, currentPlayer,
                                            gameSettings.winCondition)
                     ELSE [isGameOver |-> FALSE, winner |-> Null]
        handsOff == /\ ~isGameOver
                    /\ ~(gameSettings.winCondition = "most_on_full" /\ boardIsNowFull)
        flash == IF isCorrect THEN << >>
                 ELSE << Callback("flash", FlashDelay, currentPlayer, gameSettings, NoValue) >>
        handoff == IF handsOff
                   THEN << Callback("changeTurn", ChangeTurnDelay, currentPlayer,
                                    gameSettings, NoValue) >>
                   ELSE << >>
    IN /\ boardState' = IF isCorrect THEN newBoardState ELSE boardState
       /\ flashingCell' = IF isCorrect THEN flashingCell ELSE << row, col >>
       /\ winner' = IF isGameOver THEN claimCheck.winner
                    ELSE IF fullCheck.isGameOver THEN fullCheck.winner
                    ELSE winner
       /\ gameState' = IF isGameOver \/ fullCheck.isGameOver
                       THEN "GAME_OVER" ELSE gameState
       /\ message' = IF isGameOver /\ gameSettings.winCondition # "most_on_full"
                     THEN "Fim de jogo"
                     ELSE IF isCorrect THEN "Correto" ELSE "Incorreto"
       /\ pending' = pending \o flash \o handoff
       /\ UNCHANGED << player1Color, player2Color, currentPlayer, gameSettings, isSpinning1, isSpinning2,
                       spinner1Value, spinner2Value, spinner1Target,
                       spinner2Target, boardLayout, spinner1Segments,
                       divisionTableNumber >>

\* handleCellClick(cellValue, row, col); Board3D passes the layout's value of
\* the clicked cell.
handleCellClick(row, col) ==
  IF \/ ~EndsWithAnswer(gameState)
     \/ gameState = "GAME_OVER"
     \/ spinner1Value = NoValue
     \/ spinner2Value = NoValue
  THEN UNCHANGED vars
  ELSE
    LET cellValue == CellValue(boardLayout, row, col)
        correctResult == getCorrectAnswer(gameSettings.operation,
                                          spinner1Value, spinner2Value)
        isCorrect == correctResult # NoValue /\ cellValue = correctResult
        newBoardState == [boardState EXCEPT ![row][col] = currentPlayer]
        claimCheck == IF isCorrect
                      THEN checkWinCondition(newBoardState, currentPlayer,
                                             gameSettings.winCondition)
                      ELSE [isGameOver |-> FALSE, winner |-> Null]
        isGameOver == claimCheck.isGameOver
        boardIsNowFull == ~IncludesNull(boardState)
        fullCheck == IF /\ ~isGameOver
                        /\ gameSettings.winCondition = "most_on_full"
                        /\ boardIsNowFull
                     THEN checkWinCondition(boardState, currentPlayer,
                                            gameSettings.winCondition)
                     ELSE [isGameOver |-> FALSE, winner |-> Null]
        handsOff == /\ ~isGameOver
                    /\ ~(gameSettings.winCondition = "most_on_full" /\ boardIsNowFull)
        flash == IF isCorrect THEN << >>
                 ELSE << Callback("flash", FlashDelay, currentPlayer, gameSettings, NoValue) >>
        handoff == IF handsOff
                   THEN << Callback("changeTurn", ChangeTurnDelay, currentPlayer,
                                    gameSettings, NoValue) >>
                   ELSE << >>
    IN /\ boardState' = IF isCorrect THEN newBoardState ELSE boardState
       /\ flashingCell' = IF isCorrect THEN flashingCell ELSE << row, col >>
       /\ winner' = IF isGameOver THEN claimCheck.winner
                    ELSE IF fullCheck.isGameOver THEN fullCheck.winner
                    ELSE winner
       /\ gameState' = IF isGameOver \/ fullCheck.isGameOver
                       THEN "GAME_OVER" ELSE gameState
       /\ message' = IF isGameOver /\ gameSettings.winCondition # "most_on_full"
                     THEN "Fim de jogo"
                     ELSE IF isCorrect THEN "Correto" ELSE "Incorreto"
       /\ pending' = pending \o flash \o handoff
       /\ UNCHANGED << player1Color, player2Color, currentPlayer, gameSettings, isSpinning1, isSpinning2,
                       spinner1Value, spinner2Value, spinner1Target,
                       spinner2Target, boardLayout, spinner1Segments,
                       divisionTableNumber >>

-----------------------------------------------------------------------------
(* Events: what the presentation layer lets the users do, and the callbacks *)
(* that come due.                                                           *)

\* The start button is disabled while the two selects hold the same colour.
isButtonDisabled == player1Color = player2Color

\* handleStartClick looks the two colours up and hands the modal's choices to
\* onGameStart, which is App's handleGameStart.
handleStartClick(winCondition, operation, tableNumber) ==
  handleGameStart([winCondition |-> winCondition, operation |-> operation],
                  tableNumber)

\* GameSetupModal is open while gameState is SETUP; its button calls
\* handleStartClick unless it is disabled.
submitConfiguration(configurations) ==
  /\ gameState = "SETUP"
  /\ \E settings \in configurations, tableNumber \in Draws :
       IF isButtonDisabled
       THEN UNCHANGED vars
       ELSE handleStartClick(settings.winCondition, settings.operation,
                             tableNumber)

\* Each select of the modal offers the six colours and disables the one the
\* other select holds.
selectPlayer1Color ==
  /\ gameState = "SETUP"
  /\ \E color \in PREDEFINED_COLORS :
       /\ color # player2Color
       /\ player1Color' = color
  /\ UNCHANGED << gameState, currentPlayer, gameSettings, message, isSpinning1,
                  isSpinning2, spinner1Value, spinner2Value, winner,
                  spinner1Target, spinner2Target, boardLayout,
                  spinner1Segments, divisionTableNumber, boardState,
                  flashingCell, pending, player2Color >>

selectPlayer2Color ==
  /\ gameState = "SETUP"
  /\ \E color \in PREDEFINED_COLORS :
       /\ color # player1Color
       /\ player2Color' = color
  /\ UNCHANGED << gameState, currentPlayer, gameSettings, message, isSpinning1,
                  isSpinning2, spinner1Value, spinner2Value, winner,
                  spinner1Target, spinner2Target, boardLayout,
                  spinner1Segments, divisionTableNumber, boardState,
                  flashingCell, pending, player1Color >>

\* The restart button is drawn when the game is over and a winner is recorded.
clickRestart ==
  /\ gameState = "GAME_OVER"
  /\ winner # Null
  /\ handleRestart

\* A faulty Scene that hands handleSpin1Start to wheel 1 in every phase.
clickSpinner1Ungated ==
  /\ gameState # "GAME_OVER"
  /\ \E num1 \in Draws, num2 \in Draws : handleSpin1Start(0, num1, num2)

\* Scene: onSpinStart of wheel 1 is handleSpin1Start when canSpin1, else null.
clickSpinner1 ==
  /\ gameState # "GAME_OVER"
  /\ LET isPlayerTurn == StartsWithPlayer(gameState, currentPlayer)
         canSpin1 == isPlayerTurn /\ EndsWithSpin1(gameState)
         \* the random calls handleSpin1Start makes on the branch it takes
         usesTable == /\ gameSettings.operation = "divide"
                      /\ divisionTableNumber # NoValue
                      /\ divisionTableNumber # 0
         indexes == IF usesTable /\ ~isSpinning1 THEN 0 .. (MaxDraw - 1) ELSE {0}
         nums == IF usesTable \/ isSpinning1 THEN {1} ELSE Draws
     IN IF canSpin1
        THEN \E idx \in indexes, num1 \in nums, num2 \in nums :
               handleSpin1Start(idx, num1, num2)
        ELSE UNCHANGED vars

clickSpinner2 ==
  /\ gameState # "GAME_OVER"
  /\ LET isPlayerTurn == StartsWithPlayer(gameState, currentPlayer)
         canSpin2 == isPlayerTurn /\ EndsWithSpin2(gameState)
     IN IF canSpin2 THEN handleSpin2Start ELSE UNCHANGED vars

ClickCells == {rc \in Rows \X Cols : CellValue(boardLayout, rc[1], rc[2]) <= MaxCellValue}

clickCell ==
  /\ Len(pending) < MaxPending
  /\ \E rc \in ClickCells : handleCellClick(rc[1], rc[2])

\* The flip animation ends; onFlipComplete is called unless the component
\* was unmounted (coinRef.current is null).
coinFlipEnds ==
  \E i \in 1 .. Len(pending) :
    /\ Due(i)
    /\ pending[i].kind = "coinFlip"
    /\ IF gameState = "COIN_FLIP"
       THEN \E result \in {"cara", "coroa"}, tableNumber \in Draws :
              handleCoinFlipComplete(i, result, tableNumber)
       ELSE /\ pending' = Without(pending, i)
            /\ UNCHANGED << player1Color, player2Color, gameState, currentPlayer, gameSettings, message, isSpinning1,
                            isSpinning2, spinner1Value, spinner2Value, winner,
                            spinner1Target, spinner2Target, boardLayout,
                            spinner1Segments, divisionTableNumber, boardState,
                            flashingCell >>

\* The timer of handleCoinFlipComplete.
coinTimerFires ==
  \E i \in 1 .. Len(pending) :
    /\ Due(i)
    /\ pending[i].kind = "coinTimer"
    /\ gameState' = Spin1State(pending[i].currentPlayer)
    /\ message' = "Vez do Jogador"
    /\ pending' = Without(pending, i)
    /\ UNCHANGED << player1Color, player2Color, currentPlayer, gameSettings, isSpinning1, isSpinning2,
                    spinner1Value, spinner2Value, winner, spinner1Target,
                    spinner2Target, boardLayout, spinner1Segments,
                    divisionTableNumber, boardState, flashingCell >>

changeTurnFires ==
  \E i \in 1 .. Len(pending) :
    /\ Due(i)
    /\ pending[i].kind = "changeTurn"
    /\ \E tableNumber \in Draws : changeTurn(i, tableNumber)

\* setTimeout(() => setFlashingCell(null), 1600)
flashTimerFires ==
  \E i \in 1 .. Len(pending) :
    /\ Due(i)
    /\ pending[i].kind = "flash"
    /\ flashingCell' = NoCell
    /\ pending' = Without(pending, i)
    /\ UNCHANGED << player1Color, player2Color, gameState, currentPlayer, gameSettings, message, isSpinning1,
                    isSpinning2, spinner1Value, spinner2Value, winner,
                    spinner1Target, spinner2Target, boardLayout,
                    spinner1Segments, divisionTableNumber, boardState >>

spin1Ends ==
  \E i \in 1 .. Len(pending) :
    /\ Due(i)
    /\ pending[i].kind = "spin1End"
    /\ handleSpin1End(i)

spin2Ends ==
  \E i \in 1 .. Len(pending) :
    /\ Due(i)
    /\ pending[i].kind = "spin2End"
    /\ handleSpin2End(i)

Step(configurations) ==
  \/ submitConfiguration(configurations)
  \/ clickRestart
  \/ clickSpinner1
  \/ clickSpinner2
  \/ clickCell
  \/ coinFlipEnds
  \/ coinTimerFires
  \/ changeTurnFires
  \/ flashTimerFires
  \/ spin1Ends
  \/ spin2Ends

Settings(ops, wcs) == {[winCondition |-> wc, operation |-> op] : op \in ops, wc \in wcs}

\* Spec plays first_to_5 games of multiplication and of subtraction; the other
\* specifications below play the other win conditions.
Next == Step(Settings({"multiply", "subtract"}, {"first_to_5"}))

Spec == Init /\ [][Next]_vars

\* Timers that are due run: the browser runs every callback it was given.
FairSpec ==
  /\ Spec
  /\ WF_vars(changeTurnFires)
  /\ WF_vars(flashTimerFires)
  /\ WF_vars(coinTimerFires)

\* SpecDivide plays first_to_5 games of multiplication and of division.
NextDivide == Step(Settings({"multiply", "divide"}, {"first_to_5"}))

SpecDivide == Init /\ [][NextDivide]_vars

\* SpecSetup is the setup of a game, from the modal to the first turn: the
\* colour selects, the start button with every operation and win condition,
\* and the coin flip.
NextSetup ==
  \/ selectPlayer1Color
  \/ selectPlayer2Color
  \/ submitConfiguration(Settings(Operations, WinConditions))
  \/ coinFlipEnds
  \/ coinTimerFires

SpecSetup == Init /\ [][NextSetup]_vars

-----------------------------------------------------------------------------
(* SpecBoards: checkWinCondition under connect_3 on boards of a game in     *)
(* which the player to answer claims up to MaxMarks cells.  The other       *)
(* player has the cells of the even rows and columns (no two of them are    *)
(* neighbours, so that player has no line), which the player to answer may  *)
(* take over.  The cells are claimed in the order of their position: the    *)
(* result depends on the board, not on the order of the claims, and every   *)
(* board is built once.                                                     *)

CellIndex(rc) == rc[1] * NumCols + rc[2]

SparseBoard(who) ==
  [r \in Rows |-> [c \in Cols |-> IF r % 2 = 0 /\ c % 2 = 0 THEN who ELSE Null]]

InitBoards ==
  \E player \in Players :
    /\ gameState = AnswerState(player)
    /\ currentPlayer = player
    /\ gameSettings = [winCondition |-> "connect_3", operation |-> "multiply"]
    /\ message = "Qual o resultado"
    /\ isSpinning1 = FALSE
    /\ isSpinning2 = FALSE
    /\ spinner1Value = 1
    /\ spinner2Value = 1
    /\ winner = Null
    /\ spinner1Target = 1
    /\ spinner2Target = 1
    /\ boardLayout = PREDEFINED_BOARDS("multiply")
    /\ spinner1Segments = DEFAULT_SPINNER_SEGMENTS
    /\ divisionTableNumber = NoValue
    /\ boardState = SparseBoard(OtherPlayer(player))
    /\ flashingCell = NoCell
    /\ pending = << >>
    /\ player1Color = DEFAULT_PLAYER_COLORS.player1
    /\ player2Color = DEFAULT_PLAYER_COLORS.player2

\* newBoardState[row][col] = currentPlayer; setBoardState(newBoardState)
claimCell ==
  /\ gameState # "GAME_OVER"
  /\ CountOf(boardState, currentPlayer) < MaxMarks
  /\ LET claimed == {CellIndex(rc) : rc \in {x \in Rows \X Cols :
                                              boardState[x[1]][x[2]] = currentPlayer}}
     IN \E rc \in Rows \X Cols :
          /\ \A idx \in claimed : idx < CellIndex(rc)
          /\ boardState' = [boardState EXCEPT ![rc[1]][rc[2]] = currentPlayer]
  /\ UNCHANGED << player1Color, player2Color, gameState, currentPlayer, gameSettings, message, isSpinning1,
                  isSpinning2, spinner1Value, spinner2Value, winner,
                  spinner1Target, spinner2Target, boardLayout,
                  spinner1Segments, divisionTableNumber, flashingCell, pending >>

\* isGameOver = checkWinCondition(newBoardState, currentPlayer), with what
\* declareWinner sets
evaluateBoard ==
  /\ gameState # "GAME_OVER"
  /\ LET result == checkWinCondition(boardState, currentPlayer, gameSettings.winCondition)
     IN /\ result.isGameOver
        /\ winner' = result.winner
        /\ gameState' = "GAME_OVER"
        /\ message' = "Fim de jogo"
  /\ UNCHANGED << player1Color, player2Color, currentPlayer, gameSettings, isSpinning1, isSpinning2,
                  spinner1Value, spinner2Value, spinner1Target, spinner2Target,
                  boardLayout, spinner1Segments, divisionTableNumber,
                  boardState, flashingCell, pending >>

NextBoards == claimCell \/ evaluateBoard

SpecBoards == InitBoards /\ [][NextBoards]_vars

-----------------------------------------------------------------------------
(* SpecEndgame: most_on_full games of multiplication late in the game, when *)
(* the only unclaimed cells are those of the smallest products, followed to *)
(* their end and past it.  Its steps are those of a game in progress:       *)
(* handleRestart leaves most_on_full for the default settings, and the      *)
(* games that follow it are those of Spec.                                  *)

EndgameBoard(parity) ==
  [r \in Rows |-> [c \in Cols |->
     IF CellValue(PREDEFINED_BOARDS("multiply"), r, c) <= MaxOpen THEN Null
     ELSE IF (r + c) % 2 = parity THEN "player1" ELSE "player2"]]

\* The state changeTurn leaves, with the board of a game that has gone on
\* until few cells are left.
InitEndgame ==
  \E parity \in {0, 1}, player \in Players :
    /\ gameState = Spin1State(player)
    /\ currentPlayer = player
    /\ gameSettings = [winCondition |-> "most_on_full", operation |-> "multiply"]
    /\ message = "Vez do Jogador"
    /\ isSpinning1 = FALSE
    /\ isSpinning2 = FALSE
    /\ spinner1Value = NoValue
    /\ spinner2Value = NoValue
    /\ winner = Null
    /\ spinner1Target = NoValue
    /\ spinner2Target = NoValue
    /\ boardLayout = PREDEFINED_BOARDS("multiply")
    /\ spinner1Segments = DEFAULT_SPINNER_SEGMENTS
    /\ divisionTableNumber = NoValue
    /\ boardState = EndgameBoard(parity)
    /\ flashingCell = NoCell
    /\ pending = << >>
    /\ player1Color = DEFAULT_PLAYER_COLORS.player1
    /\ player2Color = DEFAULT_PLAYER_COLORS.player2

NextEndgame ==
  \/ clickSpinner1
  \/ clickSpinner2
  \/ clickCell
  \/ changeTurnFires
  \/ flashTimerFires
  \/ spin1Ends
  \/ spin2Ends

SpecEndgame == InitEndgame /\ [][NextEndgame]_vars

-----------------------------------------------------------------------------
(* Properties *)

\* The cells of board that belong to who.
Owned(board, who) == {rc \in Rows \X Cols : board[rc[1]][rc[2]] = who}

\* A handoff scheduled by a selection of player p has not run yet.
ChangeTurnPendingFor(q, p) ==
  \E j \in 1 .. Len(q) : q[j].kind = "changeTurn" /\ q[j].currentPlayer = p

\* A step in which handleCellClick accepts a selection: in an Answer phase
\* the steps that take no callback off the queue are the accepted selections
\* (the wheels do not react in an Answer phase).
CellClickAccepted ==
  /\ EndsWithAnswer(gameState)
  /\ Len(pending') >= Len(pending)

RoundDataNull ==
  /\ spinner1Value = NoValue
  /\ spinner2Value = NoValue
  /\ spinner1Target = NoValue
  /\ spinner2Target = NoValue

\* C1: a cell that has an owner keeps that owner in every step other than
\* handleRestart; a later correct answer on it leaves the board as it is.
C1_OwnershipPermanent ==
  [][\/ clickRestart
     \/ \A rc \in Rows \X Cols :
          boardState[rc[1]][rc[2]] # Null
            => boardState'[rc[1]][rc[2]] = boardState[rc[1]][rc[2]]]_vars

\* C2: once gameState is GAME_OVER only handleRestart changes it; no delayed
\* handoff moves a finished game into a Spin1 phase.
C2_GameOverTerminal ==
  [][gameState = "GAME_OVER" => (gameState' = "GAME_OVER" \/ clickRestart)]_vars

\* C3: after an incorrect answer of the player in the Answer phase, no cell
\* becomes that player's and no win is declared for that player before the
\* turn has passed.
C3_IncorrectForfeits ==
  [][(EndsWithAnswer(gameState) /\ message = "Incorreto")
       => /\ Owned(boardState', currentPlayer) \subseteq Owned(boardState, currentPlayer)
          /\ (winner' = currentPlayer => winner = currentPlayer)]_vars

\* C4: an accepted selection that does not end the game leaves the handoff to
\* the other player scheduled, the handoff reaches the Spin1 phase of the
\* other player, and the phases of one player's turn are followed by that
\* player's phases until the Answer phase, which is followed only by the
\* Spin1 phase of the other player (or by GAME_OVER): Spin1 of p never
\* directly follows Answer of p.
C4_TurnsAlternate ==
  /\ [][/\ (CellClickAccepted /\ gameState' # "GAME_OVER")
            => \E j \in 1 .. Len(pending') :
                 /\ pending'[j].kind = "changeTurn"
                 /\ pending'[j].currentPlayer = currentPlayer
                 /\ gameState = AnswerState(pending'[j].currentPlayer)
        /\ (gameState = "PLAYER_1_ANSWER" /\ gameState' # gameState)
            => gameState' \in {"PLAYER_2_SPIN_1", "GAME_OVER"}
        /\ (gameState = "PLAYER_2_ANSWER" /\ gameState' # gameState)
            => gameState' \in {"PLAYER_1_SPIN_1", "GAME_OVER"}
        /\ (gameState = "PLAYER_1_SPIN_1" /\ gameState' # gameState)
            => gameState' = "PLAYER_1_SPIN_2"
        /\ (gameState = "PLAYER_2_SPIN_1" /\ gameState' # gameState)
            => gameState' = "PLAYER_2_SPIN_2"
        /\ (gameState = "PLAYER_1_SPIN_2" /\ gameState' # gameState)
            => gameState' = "PLAYER_1_ANSWER"
        /\ (gameState = "PLAYER_2_SPIN_2" /\ gameState' # gameState)
            => gameState' = "PLAYER_2_ANSWER"]_vars
  /\ (gameState = "PLAYER_1_ANSWER" /\ ChangeTurnPendingFor(pending, "player1"))
       ~> (gameState = "PLAYER_2_SPIN_1")
  /\ (gameState = "PLAYER_2_ANSWER" /\ ChangeTurnPendingFor(pending, "player2"))
       ~> (gameState = "PLAYER_1_SPIN_1")

\* C4 happens: the turn has passed to player2 after both players selected
\* cells with correct answers.
C4_Witness ==
  /\ gameState = "PLAYER_2_SPIN_1"
  /\ currentPlayer = "player2"
  /\ message = "Vez do Jogador"
  /\ Owned(boardState, "player1") # {}
  /\ Owned(boardState, "player2") # {}

\* C5: the handoff into a Spin1 phase leaves spinner1Value, spinner2Value,
\* spinner1Target and spinner2Target null, and in the Spin1 phase they stay
\* null until a wheel-1 spin is requested.
C5_RoundDataDiscarded ==
  [][/\ changeTurnFires => (EndsWithSpin1(gameState') /\ RoundDataNull')
     /\ (EndsWithSpin1(gameState) /\ RoundDataNull /\ ~RoundDataNull')
          => (~isSpinning1 /\ isSpinning1')]_vars

\* C6: under first_to_5 a correct answer of player p ends the game with p the
\* winner exactly when p owns five or more cells after the claim; with four
\* cells no winner is declared and the handoff is scheduled.
C6_FirstToFive ==
  [][(gameSettings.winCondition = "first_to_5"
        /\ CellClickAccepted /\ message' \in {"Correto", "Fim de jogo"})
       => /\ (gameState' = "GAME_OVER" /\ winner' = currentPlayer)
               <=> Cardinality(Owned(boardState', currentPlayer)) >= 5
          /\ Cardinality(Owned(boardState', currentPlayer)) <= 4
               => /\ gameState' = gameState
                  /\ winner' = winner
                  /\ ChangeTurnPendingFor(pending', currentPlayer)]_vars

\* C6 happens: a first_to_5 game ended by the fifth cell of the winner.
C6_Witness ==
  /\ gameSettings.winCondition = "first_to_5"
  /\ gameState = "GAME_OVER"
  /\ winner # Null
  /\ Cardinality(Owned(boardState, winner)) = 5

\* The lines of three cells of the board: a cell and the next two in one of
\* the directions right, down, down-right and up-right, all on the board.
Lines ==
  {line \in {[k \in 0 .. 2 |-> << rc[1] + k * d[1], rc[2] + k * d[2] >>] :
               rc \in Rows \X Cols,
               d \in {<<0, 1>>, <<1, 0>>, <<1, 1>>, <<-1, 1>>}} :
     \A k \in 0 .. 2 : line[k][1] \in Rows /\ line[k][2] \in Cols}

Line3(board, p) ==
  \E line \in Lines : \A k \in 0 .. 2 : board[line[k][1]][line[k][2]] = p

\* C7: under connect_3, on every board and for every player p,
\* checkWinCondition declares p the winner exactly when p has three cells in
\* a line in a row, a column or one of the two diagonal directions, and
\* declares no winner otherwise.
C7_Connect3Detection ==
  /\ \A p \in Players :
       checkWinCondition(boardState, p, "connect_3")
         = IF Line3(boardState, p)
           THEN [isGameOver |-> TRUE, winner |-> p]
           ELSE [isGameOver |-> FALSE, winner |-> Null]
  /\ (gameSettings.winCondition = "connect_3" /\ gameState = "GAME_OVER")
       => (winner \in Players /\ Line3(boardState, winner))

\* C7 happens: a winner was declared for three cells in the up-right
\* direction, with a cell of the other player on the board.
C7_Witness ==
  /\ gameSettings.winCondition = "connect_3"
  /\ gameState = "GAME_OVER"
  /\ winner \in Players
  /\ \E r \in 2 .. (NumRows - 1), c \in 0 .. (NumCols - 3) :
       /\ boardState[r][c] = winner
       /\ boardState[r - 1][c + 1] = winner
       /\ boardState[r - 2][c + 2] = winner

\* The winner of a full board by the counts of the two players.
WinnerByCount(board, w) ==
  LET n1 == Cardinality(Owned(board, "player1"))
      n2 == Cardinality(Owned(board, "player2"))
  IN /\ n1 > n2 => w = "player1"
     /\ n2 > n1 => w = "player2"
     /\ n1 = n2 => w = Null

\* C8: under most_on_full no step sets GAME_OVER while a cell is unclaimed;
\* the step that fills the board sets GAME_OVER with the winner the player
\* who has strictly more cells, and with null when the counts are equal.
C8_MostOnFull ==
  [][gameSettings.winCondition = "most_on_full"
       => /\ (gameState # "GAME_OVER" /\ gameState' = "GAME_OVER")
               => /\ Owned(boardState', Null) = {}
                  /\ WinnerByCount(boardState', winner')
          /\ (Owned(boardState, Null) # {} /\ Owned(boardState', Null) = {})
               => /\ gameState' = "GAME_OVER"
                  /\ WinnerByCount(boardState', winner')]_vars

\* C8 happens: a most_on_full game ended with 21 cells each and no winner.
C8_Witness ==
  /\ gameSettings.winCondition = "most_on_full"
  /\ gameState = "GAME_OVER"
  /\ winner = Null
  /\ Owned(boardState, Null) = {}
  /\ Cardinality(Owned(boardState, "player1")) = Cardinality(Owned(boardState, "player2"))

\* C9: under first_to_5 no state other than GAME_OVER has a player with five
\* or more cells, and under connect_3 none has a player with three in a line.
C9_NoWinnerInPlay ==
  gameState # "GAME_OVER"
    => \A p \in Players :
         /\ gameSettings.winCondition = "first_to_5"
              => Cardinality(Owned(boardState, p)) < 5
         /\ gameSettings.winCondition = "connect_3"
              => ~connect3(boardState, p)

C11_DivisionExact ==
  gameSettings.operation = "divide"
    => /\ (spinner1Target # NoValue \/ spinner2Target # NoValue)
            => /\ spinner2Target >= 1
               /\ spinner1Target >= 1
               /\ spinner1Target % spinner2Target = 0
               /\ spinner1Target \div spinner2Target \in 1 .. 10
       /\ EndsWithAnswer(gameState)
            => /\ spinner1Value # NoValue
               /\ spinner2Value # NoValue
               /\ getCorrectAnswer("divide", spinner1Value, spinner2Value) \in 1 .. 10

\* A phase of a player's turn.
PlayerPhase(gs) == EndsWithSpin1(gs) \/ EndsWithSpin2(gs) \/ EndsWithAnswer(gs)

\* C12: in the turns of a division game the table number is in 1..10 and
\* wheel 1 carries its ten multiples; both change only with a handoff; the
\* second operand revealed in the turn is the table number.
C12_TableFixedInTurn ==
  [][/\ (gameSettings'.operation = "divide" /\ PlayerPhase(gameState'))
          => /\ divisionTableNumber' \in 1 .. 10
             /\ spinner1Segments'
                  = [i \in 1 .. SegmentCount |-> divisionTableNumber' * i]
             /\ spinner2Value' # NoValue => spinner2Value' = divisionTableNumber'
     /\ (gameSettings.operation = "divide" /\ PlayerPhase(gameState)
           /\ ~changeTurnFires)
          => /\ divisionTableNumber' = divisionTableNumber
             /\ spinner1Segments' = spinner1Segments]_vars

\* C13: getCorrectAnswer gives the product, the sum and the difference for
\* multiply, add and subtract, and for divide the quotient when the division
\* is exact and null otherwise; for the operands revealed in an Answer phase
\* and the operation of the game it is a defined integer that is not
\* negative.
C13_AnswerDefined ==
  (spinner1Value # NoValue /\ spinner2Value # NoValue)
    => /\ getCorrectAnswer("multiply", spinner1Value, spinner2Value)
            = spinner1Value * spinner2Value
       /\ getCorrectAnswer("add", spinner1Value, spinner2Value)
            = spinner1Value + spinner2Value
       /\ getCorrectAnswer("subtract", spinner1Value, spinner2Value)
            = spinner1Value - spinner2Value
       /\ \E q \in 0 .. spinner1Value :
            /\ q * spinner2Value <= spinner1Value
            /\ spinner1Value < (q + 1) * spinner2Value
            /\ getCorrectAnswer("divide", spinner1Value, spinner2Value)
                 = IF q * spinner2Value = spinner1Value THEN q ELSE NoValue
       /\ EndsWithAnswer(gameState)
            => /\ getCorrectAnswer(gameSettings.operation, spinner1Value,
                                  spinner2Value) # NoValue
               /\ getCorrectAnswer(gameSettings.operation, spinner1Value,
                                  spinner2Value) >= 0

\* The results of the operand pairs handleSpin1Start can set after
\* prepareTurn, for each operation, with the draws of the program (1..10).
ProducibleResults ==
  [op \in Operations |->
     LET settings == [winCondition |-> "first_to_5", operation |-> op]
     IN {getCorrectAnswer(op, pair[1], pair[2]) :
           pair \in {spinTargets(settings,
                                 prepareTurn(settings, t).divisionTableNumber,
                                 prepareTurn(settings, t).spinner1Segments,
                                 idx, num1, num2) :
                       t \in 1 .. DrawRange, idx \in 0 .. (DrawRange - 1),
                       num1 \in 1 .. DrawRange, num2 \in 1 .. DrawRange}}]

\* C14: whichever operation's layout is on the board, every value of it is
\* the result of an operand pair the generator can produce for that
\* operation, and its 42 values are pairwise distinct.
C14_LayoutsProducible ==
  \A op \in Operations :
    boardLayout = PREDEFINED_BOARDS(op)
      => /\ \A rc \in Rows \X Cols :
              CellValue(boardLayout, rc[1], rc[2]) \in ProducibleResults[op]
         /\ \A rc \in Rows \X Cols, other \in Rows \X Cols :
              rc # other
                => CellValue(boardLayout, rc[1], rc[2])
                     # CellValue(boardLayout, other[1], other[2])

\* C15: the two selects never hold the same colour, so no configuration with
\* equal colours is submitted and none starts a game; while the colours are
\* equal nothing changes; a step that leaves SETUP is a submission with two
\* distinct colours: it goes to COIN_FLIP with an operation and a win
\* condition of the modal and with that operation's board layout, and it
\* leaves the board, the player to move and the winner as they were.
C15_SetupSubmission ==
  [][ /\ player1Color # player2Color
      /\ player1Color' # player2Color'
      /\ (gameState = "SETUP" /\ player1Color = player2Color)
           => UNCHANGED vars
      /\ (gameState = "SETUP" /\ gameState' # "SETUP")
           => /\ gameState' = "COIN_FLIP"
              /\ gameSettings'.operation \in Operations
              /\ gameSettings'.winCondition \in WinConditions
              /\ boardLayout' = PREDEFINED_BOARDS(gameSettings'.operation)
              /\ UNCHANGED << currentPlayer, boardState, winner,
                              player1Color, player2Color >> ]_vars

\* A division game of most_on_full submitted with colours other than the
\* default ones.
C15_Witness ==
  /\ gameState = "COIN_FLIP"
  /\ gameSettings = [winCondition |-> "most_on_full", operation |-> "divide"]
  /\ boardLayout = PREDEFINED_BOARDS("divide")
  /\ player1Color = "#2ecc71"
  /\ player2Color = "#4682B4"

\* C16: the coin flip makes player1 the player to move for cara and player2
\* for coroa, and a step that leaves COIN_FLIP comes after the flip has
\* resolved and goes to the Spin1 phase of that player, who stays the
\* player to move, with no operand revealed.
C16_CoinFlipToSpin1 ==
  [][ /\ \A i \in 1 .. Len(pending), tableNumber \in Draws :
           /\ handleCoinFlipComplete(i, "cara", tableNumber)
                => currentPlayer' = "player1"
           /\ handleCoinFlipComplete(i, "coroa", tableNumber)
                => currentPlayer' = "player2"
      /\ (gameState = "COIN_FLIP" /\ gameState' # "COIN_FLIP")
           => /\ message = "Lado"
              /\ gameState' = Spin1State(currentPlayer)
              /\ currentPlayer' = currentPlayer
              /\ spinner1Value' = NoValue
              /\ spinner2Value' = NoValue ]_vars

\* C17: a wheel starts to spin, and a target is drawn, only in a step taken
\* in the phase that awaits that wheel in the turn of the player to move:
\* wheel 1 in that player's Spin1 phase, wheel 2 in that player's Spin2
\* phase; in every other phase no wheel starts and no target is drawn.
C17_SpinOnlyWhenAwaited ==
  [][ /\ (~isSpinning1 /\ isSpinning1')
           => (EndsWithSpin1(gameState) /\ StartsWithPlayer(gameState, currentPlayer))
      /\ (~isSpinning2 /\ isSpinning2')
           => (EndsWithSpin2(gameState) /\ StartsWithPlayer(gameState, currentPlayer))
      /\ (spinner1Target' # spinner1Target /\ spinner1Target' # NoValue)
           => (EndsWithSpin1(gameState) /\ StartsWithPlayer(gameState, currentPlayer))
      /\ (spinner2Target' # spinner2Target /\ spinner2Target' # NoValue)
           => (EndsWithSpin1(gameState) /\ StartsWithPlayer(gameState, currentPlayer))
      /\ (message' = "Girando" /\ message # "Girando")
           => /\ StartsWithPlayer(gameState, currentPlayer)
              /\ \/ EndsWithSpin1(gameState) /\ isSpinning1' /\ ~isSpinning2'
                 \/ EndsWithSpin2(gameState) /\ isSpinning2' /\ ~isSpinning1' ]_vars

\* Wheel 2 spinning in the Spin2 phase of player2, after wheel 1 has stopped.
C17_Witness ==
  /\ gameState = "PLAYER_2_SPIN_2"
  /\ currentPlayer = "player2"
  /\ isSpinning2
  /\ ~isSpinning1
  /\ spinner1Value # NoValue

\* The callbacks of one kind in a queue.
OfKind(queue, kind) == {i \in 1 .. Len(queue) : queue[i].kind = kind}

\* C18: while a wheel is spinning no step draws a target again or starts
\* another animation of that wheel: a target only stays as it is or is
\* cleared by a handoff, and a click on the spinning wheel changes no
\* variable.
C18_SpinLatch ==
  [][ /\ (isSpinning1 \/ isSpinning2)
           => /\ spinner1Target' \in {spinner1Target, NoValue}
              /\ spinner2Target' \in {spinner2Target, NoValue}
      /\ isSpinning1
           => Cardinality(OfKind(pending', "spin1End"))
                <= Cardinality(OfKind(pending, "spin1End"))
      /\ isSpinning2
           => Cardinality(OfKind(pending', "spin2End"))
                <= Cardinality(OfKind(pending, "spin2End"))
      /\ (isSpinning1 /\ clickSpinner1) => UNCHANGED vars
      /\ (isSpinning2 /\ clickSpinner2) => UNCHANGED vars ]_vars

\* Wheel 1 is spinning toward its target in the Spin1 phase of the player to
\* move, where a click on it still reaches handleSpin1Start.
C18_Witness ==
  /\ isSpinning1
  /\ gameState = "PLAYER_1_SPIN_1"
  /\ currentPlayer = "player1"
  /\ spinner1Target = 2
  /\ spinner2Target = 3
  /\ OfKind(pending, "spin1End") # {}

\* A cell selection can be taken: an Answer phase with both operands revealed.
AwaitsAnswer ==
  /\ gameState \in {"PLAYER_1_ANSWER", "PLAYER_2_ANSWER"}
  /\ spinner1Value # NoValue
  /\ spinner2Value # NoValue

\* C19: a cell selection outside an Answer phase, or before both operands
\* are revealed, changes no variable; a cell is claimed or flashed, a winner
\* recorded and a handoff or a flash timer scheduled only by a step taken
\* in an Answer phase with both operands revealed.
C19_SelectionIgnored ==
  [][ /\ (~AwaitsAnswer /\ clickCell) => UNCHANGED vars
      /\ ~AwaitsAnswer
           => /\ boardState' \in {boardState, initialBoardState}
              /\ flashingCell' \in {flashingCell, NoCell}
              /\ winner' \in {winner, Null}
              /\ Cardinality(OfKind(pending', "changeTurn"))
                   <= Cardinality(OfKind(pending, "changeTurn"))
              /\ Cardinality(OfKind(pending', "flash"))
                   <= Cardinality(OfKind(pending, "flash")) ]_vars

\* A Spin2 phase in which only the first operand is revealed, on a board
\* that already has a claimed cell: the cells can be clicked and no click
\* is taken.
C19_Witness ==
  /\ gameState = "PLAYER_2_SPIN_2"
  /\ spinner1Value # NoValue
  /\ spinner2Value = NoValue
  /\ ~AwaitsAnswer
  /\ Owned(boardState, "player1") # {}
  /\ ClickCells # {}

\* C20: the step that takes a game back to SETUP leaves the initial values:
\* player1 to move, every cell unclaimed, no operand revealed, no wheel
\* target, no division table number, the segments 1..10 on wheel 1, neither
\* wheel spinning and no winner.
C20_RestartInitialValues ==
  [][ (gameState # "SETUP" /\ gameState' = "SETUP")
        => /\ currentPlayer' = "player1"
           /\ \A rc \in Rows \X Cols : boardState'[rc[1]][rc[2]] = Null
           /\ spinner1Value' = NoValue
           /\ spinner2Value' = NoValue
           /\ spinner1Target' = NoValue
           /\ spinner2Target' = NoValue
           /\ divisionTableNumber' = NoValue
           /\ spinner1Segments' = [i \in 1 .. SegmentCount |-> i]
           /\ isSpinning1' = FALSE
           /\ isSpinning2' = FALSE
           /\ winner' = Null ]_vars

\* The state handleRestart leaves after a game that player2 began and that
\* was won while a handoff was still scheduled.
C20_Witness ==
  /\ gameState = "SETUP"
  /\ message = "Configure o jogo"
  /\ currentPlayer = "player1"
  /\ boardState = initialBoardState
  /\ winner = Null
  /\ OfKind(pending, "changeTurn") # {}

\* C21: in every Answer phase both operands are revealed, the first is the
\* target chosen for wheel 1 and the second the target chosen for wheel 2.
C21_TargetsResolve ==
  EndsWithAnswer(gameState)
    => /\ spinner1Value # NoValue
       /\ spinner2Value # NoValue
       /\ spinner1Value = spinner1Target
       /\ spinner2Value = spinner2Target

\* player2 is asked for the result of the targets 3 and 2.
C21_Witness ==
  /\ gameState = "PLAYER_2_ANSWER"
  /\ spinner1Target = 3
  /\ spinner2Target = 2
  /\ spinner1Value = 3
  /\ spinner2Value = 2

\* C22: in an Answer phase with both operands revealed, a step that adds to
\* the board claims one cell, for the player to move, and the layout value
\* of that cell is the result getCorrectAnswer gives for the revealed
\* operands; a selection taken as correct needs such a cell; a selection
\* taken as incorrect, one made when there is no integer result included,
\* is of a cell whose value is not that result, leaves the board as it is
\* and schedules the handoff.
C22_CorrectIffAnswer ==
  [][ AwaitsAnswer =>
        LET answer == getCorrectAnswer(gameSettings.operation, spinner1Value,
                                       spinner2Value)
            Correct(row, col) ==
              answer # NoValue /\ boardLayout[row + 1][col + 1] = answer
            changed == {rc \in Rows \X Cols :
                          boardState'[rc[1]][rc[2]] # boardState[rc[1]][rc[2]]}
            taken == Len(pending') >= Len(pending)
        IN /\ (changed # {} /\ gameState' # "SETUP")
                => /\ Cardinality(changed) = 1
                   /\ \A rc \in changed :
                        /\ Correct(rc[1], rc[2])
                        /\ boardState'[rc[1]][rc[2]] = currentPlayer
                   /\ message' \in {"Correto", "Fim de jogo"}
           /\ (taken /\ message' \in {"Correto", "Fim de jogo"})
                => \E rc \in Rows \X Cols : Correct(rc[1], rc[2])
           /\ (taken /\ message' = "Incorreto")
                => /\ flashingCell' # NoCell
                   /\ ~Correct(flashingCell'[1], flashingCell'[2])
                   /\ boardState' = boardState
                   /\ gameState' = gameState
                   /\ Cardinality(OfKind(pending', "changeTurn"))
                        = Cardinality(OfKind(pending, "changeTurn")) + 1 ]_vars

\* A selection made in a division game whose operands have no integer
\* result: it is taken as incorrect and the handoff is scheduled.
C22_Witness ==
  /\ AwaitsAnswer
  /\ gameSettings.operation = "divide"
  /\ getCorrectAnswer("divide", spinner1Value, spinner2Value) = NoValue
  /\ message = "Incorreto"
  /\ flashingCell # NoCell
  /\ OfKind(pending, "changeTurn") # {}

\* C23: while the game is not over no winner is recorded.
C23_WinnerOnlyInGameOver ==
  gameState # "GAME_OVER" => winner = Null

\* C24: in SETUP the board is empty and the settings are the default ones,
\* and a step taken in SETUP either stays in SETUP or is a configuration
\* submission, which goes to COIN_FLIP.
C24_SetupLeftBySubmission ==
  [][ gameState = "SETUP"
        => /\ boardState = initialBoardState
           /\ gameSettings = DEFAULT_GAME_SETTINGS
           /\ gameState' \in {"SETUP", "COIN_FLIP"}
           /\ gameState' = "COIN_FLIP"
                => /\ message' = "Sorteando"
                   /\ boardState' = boardState
                   /\ OfKind(pending', "coinFlip") # {} ]_vars

\* C25: a most_on_full game that is set up or under way can still end: every
\* cell that has no owner yet holds the result of some round the generator
\* can produce for the game's operation, so that it can be claimed and the
\* board can fill.
C25_MostOnFullCanEnd ==
  (gameSettings.winCondition = "most_on_full" /\ gameState \notin {"SETUP", "GAME_OVER"})
    => \A rc \in Rows \X Cols :
         boardState[rc[1]][rc[2]] = Null
           => CellValue(boardLayout, rc[1], rc[2])
                \in ProducibleResults[gameSettings.operation]

\* The cells of a layout that hold a value.
CellsWith(layout, value) ==
  {rc \in Rows \X Cols : CellValue(layout, rc[1], rc[2]) = value}

\* C26: whichever operation's layout is on the board, the result of every
\* operand pair the generator can produce for that operation is the value
\* of exactly one cell; and in every Answer phase exactly one cell holds the
\* result of the revealed operands.
C26_ExactlyOneCorrectCell ==
  /\ \A op \in Operations :
       boardLayout = PREDEFINED_BOARDS(op)
         => \A result \in ProducibleResults[op] :
              Cardinality(CellsWith(boardLayout, result)) = 1
  /\ EndsWithAnswer(gameState)
       => LET answer == getCorrectAnswer(gameSettings.operation,
                                         spinner1Value, spinner2Value)
          IN /\ answer # NoValue
             /\ Cardinality(CellsWith(boardLayout, answer)) = 1

\* C27: in every GAME_OVER state, with a winner or drawn, the restart button
\* can be clicked (and handleRestart then leads to SETUP).
C27_RestartAvailable ==
  gameState = "GAME_OVER" => ENABLED clickRestart

\* C28: in a Spin1, Spin2 or Answer phase the player named in gameState is
\* the player to move; the end of wheel 1's spin takes the Spin1 phase of a
\* player to the Spin2 phase of the same player, and the end of wheel 2's
\* spin takes the Spin2 phase of a player to the Answer phase of the same
\* player.
C28_PhasePlayerIsCurrent ==
  [][ /\ PlayerPhase(gameState) => StartsWithPlayer(gameState, currentPlayer)
      /\ PlayerPhase(gameState') => StartsWithPlayer(gameState', currentPlayer')
      /\ \A p \in Players :
           /\ (spin1Ends /\ gameState = Spin1State(p)) => gameState' = Spin2State(p)
           /\ (spin2Ends /\ gameState = Spin2State(p)) => gameState' = AnswerState(p) ]_vars

\* The Answer phase of player2, reached from player2's Spin2 phase by the
\* end of wheel 2's spin.
C28_Witness ==
  /\ gameState = "PLAYER_2_ANSWER"
  /\ currentPlayer = "player2"
  /\ message = "Qual o resultado"
  /\ ~isSpinning1
  /\ ~isSpinning2

\* C29: while a wheel is spinning its target is set and is the value of one
\* of the wheel's segments, so that its animation runs and comes to an end.
C29_SpinningHasTarget ==
  /\ isSpinning1
       => /\ spinner1Target # NoValue
          /\ \E i \in DOMAIN spinner1Segments : spinner1Segments[i] = spinner1Target
  /\ isSpinning2
       => /\ spinner2Target # NoValue
          /\ \E i \in DOMAIN DEFAULT_SPINNER_SEGMENTS :
               DEFAULT_SPINNER_SEGMENTS[i] = spinner2Target

\* C30: at most one handoff is scheduled at any time, and changeTurn runs
\* only in an Answer phase, that of the player whose selection scheduled it.
C30_OneHandoffPerAnswer ==
  [][ /\ Cardinality(OfKind(pending', "changeTurn")) <= 1
      /\ \A i \in OfKind(pending, "changeTurn") :
           (Due(i) /\ \E tableNumber \in Draws : changeTurn(i, tableNumber))
             => gameState = AnswerState(pending[i].currentPlayer) ]_vars

====
